---- MODULE Spec2Model ----
(***************************************************************************)
(* od-get: the crawl-and-resume pipeline.                                  *)
(*   src/src/main.rs            the orchestrator (main, write_state)       *)
(*   src/src/download/crawl.rs  listing parser, expand_node, get_root_dir  *)
(* download/fetch.rs and download/types.rs are not part of the sources at  *)
(* hand; download_recursive, LimitCounts and StateStore follow the design  *)
(* document (sections 3 and 4.4).                                          *)
(***************************************************************************)
EXTENDS Integers, Sequences, FiniteSets, TLC

VARIABLES
    pc,           \* position of main
    cli_options,  \* the parsed command line
    disk,         \* the checkpoint file at state_store_path
    state_store,  \* main's state_store
    done_list,    \* main's done_list
    root,         \* main's root (the node being crawled)
    to_do,        \* the continuation queue returned by the first-level call
    task,         \* index of the next task of the `for task in to_do` loop
    counters,     \* main's counters
    counters_1,   \* main's counters_1
    res,          \* how the process ended: "running", "Ok", "Err", "Panic"
    log,          \* history: fetches, traversal calls, checkpoint writes
    parse_html,   \* the page text handed to the listing parser
    parse_base,   \* the base URL handed to the listing parser
    parse_result  \* what the listing parser returned last

parser_vars == <<parse_html, parse_base, parse_result>>

vars == <<pc, cli_options, disk, state_store, done_list, root, to_do, task,
          counters, counters_1, res, log, parse_html, parse_base, parse_result>>

(***************************************************************************)
(* Bounds                                                                  *)
(***************************************************************************)
\* limits offered on the command line are 1..MaxLimit (or absent)
MaxLimit == 1
\* number of expand_node calls a caller issues on one list (SpecExpand)
MaxExpansions == 2
\* length of the child lists expanded (SpecExpand)
MaxListLen == 3
\* lines of a page text handed to the parser (SpecParse)
MaxLines == 3
\* trailing empty path segments of an href (SpecParse)
MaxSlashes == 19
\* workers of the data-parallel line matching (SpecParse)
MaxWorkers == 3
\* number of times one page text is parsed (SpecParse)
MaxParses == 2

(***************************************************************************)
(* Nodes (download/types.rs, used by crawl.rs and main.rs)                 *)
(***************************************************************************)
File(url, name, last_modified, size, description) ==
    [variant |-> "File", url |-> url, name |-> name,
     last_modified |-> last_modified, size |-> size,
     description |-> description, children |-> <<>>]

PendingDir(url, name, last_modified, description) ==
    [variant |-> "PendingDir", url |-> url, name |-> name,
     last_modified |-> last_modified, size |-> "",
     description |-> description, children |-> <<>>]

CrawledDir(url, name, last_modified, description, children) ==
    [variant |-> "CrawledDir", url |-> url, name |-> name,
     last_modified |-> last_modified, size |-> "",
     description |-> description, children |-> children]

(***************************************************************************)
(* URLs are sequences of path segments: <<"pub", "">> is /pub/ .           *)
(***************************************************************************)
EMPTY_SIZE_STRING == "  - "

\* the href no base URL resolves
BadHref == <<"[">>

\* Url::join: the href replaces the last segment of the base
UrlJoin(base_url, href) ==
    IF href = BadHref
    THEN [ok |-> FALSE, val |-> <<>>]
    ELSE [ok |-> TRUE, val |-> SubSeq(base_url, 1, Len(base_url) - 1) \o href]

\* PathSegmentsMut::pop_if_empty: drops one trailing empty segment, unless it
\* is the only segment
pop_if_empty(url) ==
    IF Len(url) > 1 /\ url[Len(url)] = ""
    THEN SubSeq(url, 1, Len(url) - 1)
    ELSE url

\* the number of chained pop_if_empty calls of clean_url
PopCount == 17

\* variant: every trailing empty segment is removed
RECURSIVE clean_url_all(_)
clean_url_all(url) ==
    IF pop_if_empty(url) = url THEN url ELSE clean_url_all(pop_if_empty(url))

RECURSIVE pop_times(_, _)
pop_times(url, n) ==
    IF n = 0 THEN url ELSE pop_times(pop_if_empty(url), n - 1)

clean_url(url) == pop_times(url, PopCount)

(***************************************************************************)
(* The listing parser.  A page text is a sequence of lines; a line is the  *)
(* heading, a table row with its five captured fields, or anything else.   *)
(***************************************************************************)
TitleLine(text) ==
    [kind |-> "title", text |-> text, href |-> <<>>, name |-> "",
     date |-> "", size |-> "", desc |-> ""]

RowLine(href, name, date, size, desc) ==
    [kind |-> "row", text |-> "", href |-> href, name |-> name,
     date |-> date, size |-> size, desc |-> desc]

OtherLine(text) ==
    [kind |-> "other", text |-> text, href |-> <<>>, name |-> "",
     date |-> "", size |-> "", desc |-> ""]

\* decode_html_entities on one piece of text
DecodeText(s) ==
    CASE s = "R &amp; D" -> "R & D"
      [] s = "x &lt; y"  -> "x < y"
      [] OTHER           -> s

DecodeLine(l) ==
    [l EXCEPT !.text = DecodeText(l.text), !.name = DecodeText(l.name),
              !.date = DecodeText(l.date), !.size = DecodeText(l.size),
              !.desc = DecodeText(l.desc)]

\* sanitize_html: decode the entities, then String::from_utf8
sanitize_html(text) ==
    IF text.utf8
    THEN [ok |-> TRUE,
          val |-> [utf8 |-> TRUE,
                   lines |-> [i \in 1..Len(text.lines) |-> DecodeLine(text.lines[i])]]]
    ELSE [ok |-> FALSE, val |-> text]

\* get_first(html, RX_TITLE): the first heading of the page
RECURSIVE get_first(_, _)
get_first(lines, i) ==
    IF i > Len(lines) THEN [ok |-> FALSE, val |-> ""]
    ELSE IF lines[i].kind = "title" THEN [ok |-> TRUE, val |-> lines[i].text]
    ELSE get_first(lines, i + 1)

\* variant: the size is compared without its surrounding blanks
cheap_process_row_trim(base_url, line) ==
    IF line.kind # "row" THEN <<>>
    ELSE LET href == UrlJoin(base_url, line.href)
         IN  IF ~href.ok THEN <<>>
             ELSE IF line.size \in {EMPTY_SIZE_STRING, " - ", "-", "  -  ", "  -"}
             THEN <<PendingDir(href.val, line.name, line.date, line.desc)>>
             ELSE <<File(clean_url(href.val), line.name, line.date,
                         line.size, line.desc)>>

\* cheap_process_row(base_url)(line): <<>> for None, <<node>> for Some(node)
cheap_process_row(base_url, line) ==
    IF line.kind # "row" THEN <<>>
    ELSE LET href == UrlJoin(base_url, line.href)
         IN  IF ~href.ok THEN <<>>
             ELSE IF line.size = EMPTY_SIZE_STRING
             THEN <<PendingDir(href.val, line.name, line.date, line.desc)>>
             ELSE <<File(clean_url(href.val), line.name, line.date,
                         line.size, line.desc)>>

RECURSIVE filter_map_rows(_, _, _)
filter_map_rows(base_url, lines, i) ==
    IF i > Len(lines) THEN <<>>
    ELSE cheap_process_row(base_url, lines[i])
             \o filter_map_rows(base_url, lines, i + 1)

cheap_extract_from_html(html, base_url) ==
    LET dir_name == get_first(html.lines, 1)
    IN  IF ~dir_name.ok
        THEN [ok |-> FALSE, title |-> "", nodes |-> <<>>]
        ELSE [ok |-> TRUE, title |-> dir_name.val,
              nodes |-> filter_map_rows(base_url, html.lines, 1)]

(***************************************************************************)
(* The data-parallel form of the row extraction (crawl.rs 65-68):          *)
(* par_lines splits the text into consecutive chunks, one per worker, the  *)
(* chunks are matched independently and finish in any order, and collect   *)
(* puts each chunk's entries at the chunk's position.                      *)
(***************************************************************************)
RECURSIVE Concat(_)
Concat(parts) ==
    IF parts = <<>> THEN <<>> ELSE Head(parts) \o Concat(Tail(parts))

\* the lines worker c of w gets
ChunkOf(lines, c, w) ==
    SubSeq(lines, ((c - 1) * Len(lines)) \div w + 1, (c * Len(lines)) \div w)

\* a schedule: the number of workers and the order in which they finish
Schedules ==
    UNION {[workers : {w},
            order : {p \in [1..w -> 1..w] :
                        \A i, j \in 1..w : p[i] = p[j] => i = j}]
           : w \in 1..MaxWorkers}

\* variant: collect appends the chunks as they finish
par_filter_map_arrival(base_url, lines, sched) ==
    Concat([k \in 1..sched.workers |->
              filter_map_rows(base_url,
                              ChunkOf(lines, sched.order[k], sched.workers), 1)])

\* html.par_lines().filter_map(cheap_process_row(base_url)).collect()
par_filter_map(base_url, lines, sched) ==
    LET w == sched.workers
        \* the slot of chunk c, filled when the chunk finishes
        finished(c) == \E k \in 1..w : sched.order[k] = c
        slots == [c \in 1..w |->
                    IF finished(c)
                    THEN filter_map_rows(base_url, ChunkOf(lines, c, w), 1)
                    ELSE <<>>]
    IN  Concat(slots)

\* cheap_extract_from_html under a schedule of the parallel step
cheap_extract_from_html_par(html, base_url, sched) ==
    LET dir_name == get_first(html.lines, 1)
    IN  IF ~dir_name.ok
        THEN [ok |-> FALSE, title |-> "", nodes |-> <<>>]
        ELSE [ok |-> TRUE, title |-> dir_name.val,
              nodes |-> par_filter_map(base_url, html.lines, sched)]

NoText == [utf8 |-> TRUE, lines |-> <<>>]

NotParsed == [done |-> FALSE, ok |-> FALSE, title |-> "", nodes |-> <<>>]

(***************************************************************************)
(* The remote site and the transport.                                      *)
(***************************************************************************)
RootUrl == <<"pub", "">>
UrlA    == <<"pub", "a", "">>
UrlB    == <<"pub", "b", "">>
UrlC    == <<"pub", "a", "c", "">>
UrlF1   == <<"pub", "f1.txt">>
UrlF2   == <<"pub", "a", "f2.txt">>
UrlF3   == <<"pub", "b", "f3.txt">>
UrlF4   == <<"pub", "a", "c", "f4.txt">>

ParentRow == OtherLine("Parent Directory")

\* the listing the server holds for a directory URL
SitePage(url) ==
    CASE url = RootUrl ->
           <<TitleLine("/pub"), ParentRow,
             RowLine(<<"f1.txt">>, "f1.txt", "d1", "1.2K", "R &amp; D"),
             RowLine(<<"a", "">>, "a/", "d2", EMPTY_SIZE_STRING, "dir a"),
             RowLine(<<"b", "">>, "b/", "d3", EMPTY_SIZE_STRING, "dir b")>>
      [] url = UrlA ->
           <<TitleLine("/pub/a"), ParentRow,
             RowLine(<<"f2.txt", "", "">>, "f2.txt", "d4", "7", "second"),
             RowLine(<<"c", "">>, "c/", "d5", EMPTY_SIZE_STRING, "dir c")>>
      [] url = UrlB ->
           <<TitleLine("/pub/b"), ParentRow,
             RowLine(<<"f3.txt">>, "f3.txt", "d6", "3M", "third")>>
      [] url = UrlC ->
           <<TitleLine("/pub/a/c"), ParentRow,
             RowLine(<<"f4.txt">>, "f4.txt", "d7", "9", "fourth")>>
      [] OTHER -> <<TitleLine("/"), ParentRow>>

\* what one GET can come to: the listing, a page without the heading, a
\* failure of send(), a failure of text()
Outcomes == {"ok", "no_title", "send_fail", "body_fail"}

\* the body text of a response that arrived
ResponseText(url, outcome) ==
    IF outcome = "no_title"
    THEN [utf8 |-> TRUE, lines |-> Tail(SitePage(url))]
    ELSE [utf8 |-> TRUE, lines |-> SitePage(url)]

Fetched(url, outcome) == [ev |-> "fetch", url |-> url, outcome |-> outcome]

(***************************************************************************)
(* crawl.rs: expand_node and get_root_dir.  `out` gives the outcome of the *)
(* GET issued for the child at each index.                                 *)
(***************************************************************************)
\* variant: every directory is crawled, expanded or not
needs_crawl_dirs(node) == node.variant # "File"

\* crawl.rs 133: `if let Node::PendingDir(dir) = node`
needs_crawl(node) == node.variant = "PendingDir"

RECURSIVE expand_from(_, _, _, _)
expand_from(nodes, out, i, fetched) ==
    IF i > Len(nodes)
    THEN [result |-> "Ok", nodes |-> nodes, fetched |-> fetched]
    ELSE IF ~needs_crawl(nodes[i])
    THEN expand_from(nodes, out, i + 1, fetched)
    ELSE
      LET dir  == nodes[i]
          sent == Append(fetched, Fetched(dir.url, out[i]))
      IN  IF out[i] = "send_fail"
          THEN [result |-> "Err", nodes |-> nodes, fetched |-> sent]
          ELSE IF out[i] = "body_fail"
          THEN [result |-> "Panic", nodes |-> nodes, fetched |-> sent]
          ELSE
            LET html == sanitize_html(ResponseText(dir.url, out[i]))
            IN  IF ~html.ok
                THEN [result |-> "Err", nodes |-> nodes, fetched |-> sent]
                ELSE
                  LET dir_data == cheap_extract_from_html(html.val, dir.url)
                  IN  IF ~dir_data.ok
                      THEN [result |-> "Err", nodes |-> nodes, fetched |-> sent]
                      ELSE expand_from(
                             [nodes EXCEPT ![i] =
                                CrawledDir(dir.url, dir_data.title,
                                           dir.last_modified, dir.description,
                                           dir_data.nodes)],
                             out, i + 1, sent)

\* variant: the loop starts at the second child
expand_node_skip(nodes, out) == expand_from(nodes, out, 2, <<>>)

\* variant: an expanded node keeps the name its parent's listing gave it
expand_node_keepname(nodes, out) ==
    LET e == expand_from(nodes, out, 1, <<>>)
    IN  [e EXCEPT !.nodes =
           [i \in 1..Len(nodes) |->
              [e.nodes[i] EXCEPT !.name = nodes[i].name]]]

expand_node(nodes, out) == expand_from(nodes, out, 1, <<>>)

NoNode == PendingDir(<<>>, "", "", "")

\* variant: the root is described by its URL, its title is not used
get_root_dir_untitled(url, outcome) ==
    IF outcome \in {"send_fail", "body_fail"}
    THEN [result |-> "Panic", node |-> NoNode]
    ELSE
      LET html == sanitize_html(ResponseText(url, outcome))
      IN  IF ~html.ok
          THEN [result |-> "Err", node |-> NoNode]
          ELSE
            LET root_data == cheap_extract_from_html(html.val, url)
            IN  IF ~root_data.ok
                THEN [result |-> "Err", node |-> NoNode]
                ELSE [result |-> "Ok",
                      node |-> CrawledDir(url, "", "", root_data.title,
                                          root_data.nodes)]

get_root_dir(url, outcome) ==
    IF outcome \in {"send_fail", "body_fail"}
    THEN [result |-> "Panic", node |-> NoNode]
    ELSE
      LET html == sanitize_html(ResponseText(url, outcome))
      IN  IF ~html.ok
          THEN [result |-> "Err", node |-> NoNode]
          ELSE
            LET root_data == cheap_extract_from_html(html.val, url)
            IN  IF ~root_data.ok
                THEN [result |-> "Err", node |-> NoNode]
                ELSE [result |-> "Ok",
                      node |-> CrawledDir(url, root_data.title, "", "",
                                          root_data.nodes)]

(***************************************************************************)
(* The state store and the limit counters (download/types.rs and           *)
(* download/fetch.rs), after sections 3 and 6 of the design document.      *)
(***************************************************************************)
\* the time update_modified_time reads; checkpoints on disk are older
Now == 1

CrawlNone           == [tag |-> "None", node |-> NoNode]
CrawlPartial(node)  == [tag |-> "Partial", node |-> node]
CrawlComplete(node) == [tag |-> "Complete", node |-> node]

StateStoreNew ==
    [crawling_state |-> CrawlNone, downloaded_urls |-> <<>>, last_modified |-> 0]

update_modified_time(store) == [store EXCEPT !.last_modified = Now]

\* StateStore::get_root_ref: the root of a complete crawl
get_root_ref(store) ==
    IF store.crawling_state.tag = "Complete"
    THEN [ok |-> TRUE, node |-> store.crawling_state.node]
    ELSE [ok |-> FALSE, node |-> NoNode]

LimitCountsNew == [files |-> 0, bytes |-> 0]

InSeq(x, s) == \E i \in 1..Len(s) : s[i] = x

\* the number of bytes the server streams for a file
FileBytes(url) == IF url = UrlF1 THEN 2 ELSE 1

\* an absent option is <<>>, a present one <<n>>
LimitReached(options, c) ==
    \/ options.max_files # <<>> /\ c.files >= options.max_files[1]
    \/ options.max_bytes # <<>> /\ c.bytes >= options.max_bytes[1]

(***************************************************************************)
(* download_recursive (section 4.4): the immediate children in order, one  *)
(* further level for an expanded child, everything deeper deferred.  `bad` *)
(* is the set of URLs whose transfer fails during this call.               *)
(***************************************************************************)
RECURSIVE walk(_, _, _, _, _, _)
walk(children, i, depth, options, bad, acc) ==
    IF i > Len(children) \/ acc.state # "run" THEN acc
    ELSE
      LET child == children[i]
      IN  CASE child.variant = "File" ->
                 IF InSeq(child.url, acc.done)
                 THEN walk(children, i + 1, depth, options, bad, acc)
                 ELSE IF LimitReached(options, acc.counters)
                 THEN [acc EXCEPT !.state = "limit"]
                 ELSE IF child.url \in bad
                 THEN [acc EXCEPT !.state = "err",
                                  !.attempts = Append(@, child.url)]
                 ELSE walk(children, i + 1, depth, options, bad,
                           [acc EXCEPT
                              !.attempts = Append(@, child.url),
                              !.done = Append(@, child.url),
                              !.counters =
                                 [files |-> @.files + 1,
                                  bytes |-> @.bytes + FileBytes(child.url)]])
            [] child.variant = "PendingDir" ->
                 walk(children, i + 1, depth, options, bad,
                      [acc EXCEPT !.queue = Append(@, child)])
            [] OTHER ->
                 IF depth = 0
                 THEN walk(children, i + 1, depth, options, bad,
                           walk(child.children, 1, 1, options, bad, acc))
                 ELSE walk(children, i + 1, depth, options, bad,
                           [acc EXCEPT !.queue = Append(@, child)])

download_recursive(node, options, limit_counters, done, bad) ==
    LET acc == walk(node.children, 1, 0, options, bad,
                    [state |-> "run", queue |-> <<>>, attempts |-> <<>>,
                     counters |-> limit_counters, done |-> done])
    IN  [status   |-> CASE acc.state = "err" -> "Err"
                        [] acc.state = "limit" -> "Do"
                        [] OTHER -> IF acc.queue = <<>> THEN "Done" ELSE "Do",
         to_do    |-> CASE acc.state = "err" -> <<>>
                        [] acc.state = "limit" -> <<node>>
                        [] OTHER -> acc.queue,
         counters |-> acc.counters,
         done     |-> acc.done,
         attempts |-> acc.attempts]

Called(level, node, limit_counters, done, r) ==
    [ev |-> "call", level |-> level, node |-> node,
     counters_in |-> limit_counters, done_in |-> done,
     status |-> r.status, to_do |-> r.to_do,
     counters_out |-> r.counters, done_out |-> r.done,
     attempts |-> r.attempts]

Wrote(store) == [ev |-> "write", store |-> store]

(***************************************************************************)
(* Inputs of a run: the command line, the checkpoint file, the transfers   *)
(* that fail.                                                              *)
(***************************************************************************)
LimitChoices == {<<>>} \cup {<<n>> : n \in 1..MaxLimit}

UrlD  == <<"pub", "a", "c", "d", "">>
UrlE  == <<"pub", "a", "c", "d", "e", "">>
UrlF5 == <<"pub", "a", "c", "d", "f5.txt">>
UrlF6 == <<"pub", "a", "c", "d", "e", "f6.txt">>

FileUrls == {UrlF1, UrlF2, UrlF3, UrlF4, UrlF5, UrlF6}

\* at most one transfer is broken during a traversal call
BadChoices == {{}} \cup {{u} : u \in FileUrls}

AllOk(n) == [i \in 1..n |-> "ok"]

\* the tree a crawl of the site without failures stores
CrawledSite ==
    LET r == get_root_dir(RootUrl, "ok").node
    IN  [r EXCEPT !.children =
           expand_node(r.children, AllOk(Len(r.children))).nodes]

\* a tree expanded at every depth, as a checkpoint file may hold it
DeepTree ==
    CrawledDir(RootUrl, "/pub", "", "",
      <<File(UrlF1, "f1.txt", "d1", "1.2K", "R & D"),
        CrawledDir(UrlA, "/pub/a", "d2", "dir a",
          <<File(UrlF2, "f2.txt", "d4", "7", "second"),
            CrawledDir(UrlC, "/pub/a/c", "d5", "dir c",
              <<File(UrlF4, "f4.txt", "d7", "9", "fourth"),
                CrawledDir(UrlD, "/pub/a/c/d", "d8", "dir d",
                  <<File(UrlF5, "f5.txt", "d9", "5", "fifth"),
                    CrawledDir(UrlE, "/pub/a/c/d/e", "d10", "dir e",
                      <<File(UrlF6, "f6.txt", "d11", "6", "sixth")>>)>>)>>)>>)>>)

Stored(crawling_state, downloaded_urls) ==
    [kind |-> "store",
     store |-> [crawling_state |-> crawling_state,
                downloaded_urls |-> downloaded_urls, last_modified |-> 0]]

DiskChoices ==
    {[kind |-> "missing", store |-> StateStoreNew],
     [kind |-> "garbage", store |-> StateStoreNew],
     Stored(CrawlNone, <<UrlF3>>),
     Stored(CrawlPartial(get_root_dir(RootUrl, "ok").node), <<UrlF1>>),
     Stored(CrawlComplete(CrawledSite), <<>>),
     Stored(CrawlComplete(CrawledSite), <<UrlF2>>),
     Stored(CrawlComplete(DeepTree), <<UrlF1>>)}

(***************************************************************************)
(* main (src/src/main.rs)                                                  *)
(***************************************************************************)
\* main.rs 46-48: read_to_string(..).unwrap_or("make-new"), then
\* from_str(..).unwrap_or(StateStore::new())
load_state_store(file) ==
    IF file.kind = "store" THEN file.store ELSE StateStoreNew

\* variant: the persisted tree is never trusted
must_crawl_always(store) == TRUE

\* main.rs 54-56: only a complete crawl is taken from the checkpoint
must_crawl(store) == store.crawling_state.tag # "Complete"

Loaded(file, store) == [ev |-> "load", kind |-> file.kind, store |-> store]

\* variant: the crawl result is stored as a partial crawl
crawl_completed_partial(store, node) ==
    [update_modified_time(store) EXCEPT !.crawling_state = CrawlPartial(node)]

\* variant: the crawl result goes into a new store
crawl_completed_fresh(store, node) ==
    [update_modified_time(StateStoreNew) EXCEPT
        !.crawling_state = CrawlComplete(node)]

\* main.rs 69-73: the store after a crawl
crawl_completed(store, node) ==
    [update_modified_time(store) EXCEPT !.crawling_state = CrawlComplete(node)]

\* main.rs 143-152: the store written when a task fails
error_checkpoint(store, done) ==
    [update_modified_time(store) EXCEPT !.downloaded_urls = done]

\* variant: the done-list is not copied into the store
write_state_stale(store, done) == update_modified_time(store)

\* main.rs 175-192: write_state
write_state(store, done) ==
    [update_modified_time(store) EXCEPT !.downloaded_urls = done]

\* the process ends
Exit(how) == pc' = "exit" /\ res' = how

Init ==
    /\ pc = "load"
    /\ cli_options \in [state_store_path : BOOLEAN, no_download : BOOLEAN,
                        url : {RootUrl},
                        max_files : LimitChoices, max_bytes : LimitChoices]
    /\ disk \in DiskChoices
    /\ ~cli_options.state_store_path => disk.kind = "missing"
    /\ state_store = StateStoreNew
    /\ done_list = <<>>
    /\ root = NoNode
    /\ to_do = <<>>
    /\ task = 1
    /\ counters = LimitCountsNew
    /\ counters_1 = LimitCountsNew
    /\ res = "running"
    /\ log = <<>>
    /\ parse_html = NoText
    /\ parse_base = RootUrl
    /\ parse_result = NotParsed

\* variant: a checkpoint file that cannot be loaded ends the run
LoadState_strict ==
    /\ pc = "load"
    /\ UNCHANGED parser_vars
    /\ IF cli_options.state_store_path
       THEN IF disk.kind # "store"
            THEN /\ Exit("Err")
                 /\ log' = Append(log, Loaded(disk, StateStoreNew))
                 /\ UNCHANGED <<state_store, done_list>>
            ELSE /\ state_store' = disk.store
                 /\ done_list' = disk.store.downloaded_urls
                 /\ pc' = IF must_crawl(disk.store) THEN "get_root" ELSE "download"
                 /\ res' = res
                 /\ log' = Append(log, Loaded(disk, disk.store))
       ELSE IF cli_options.no_download
       THEN /\ Exit("Err")
            /\ UNCHANGED <<state_store, done_list, log>>
       ELSE /\ state_store' = StateStoreNew
            /\ done_list' = <<>>
            /\ pc' = "get_root"
            /\ res' = res
            /\ log' = log
    /\ UNCHANGED <<cli_options, disk, root, to_do, task, counters, counters_1>>

\* main.rs 40-56 and 83-92
LoadState ==
    /\ pc = "load"
    /\ UNCHANGED parser_vars
    /\ IF cli_options.state_store_path
       THEN LET store == load_state_store(disk)
            IN  /\ state_store' = store
                /\ done_list' = store.downloaded_urls
                /\ pc' = IF must_crawl(store) THEN "get_root" ELSE "download"
                /\ res' = res
                /\ log' = Append(log, Loaded(disk, store))
       ELSE IF cli_options.no_download
       THEN /\ Exit("Err")
            /\ UNCHANGED <<state_store, done_list, log>>
       ELSE /\ state_store' = StateStoreNew
            /\ done_list' = <<>>
            /\ pc' = "get_root"
            /\ res' = res
            /\ log' = log
    /\ UNCHANGED <<cli_options, disk, root, to_do, task, counters, counters_1>>

\* main.rs 60 and 94
GetRootDir ==
    /\ pc = "get_root"
    /\ UNCHANGED parser_vars
    /\ \E outcome \in Outcomes :
         LET r == get_root_dir(cli_options.url, outcome)
         IN  /\ log' = Append(log, Fetched(cli_options.url, outcome))
             /\ IF r.result = "Ok"
                THEN root' = r.node /\ pc' = "expand" /\ res' = res
                ELSE Exit(r.result) /\ root' = root
    /\ UNCHANGED <<cli_options, disk, state_store, done_list, to_do, task,
                   counters, counters_1>>

\* main.rs 63-80 and 97-106
ExpandRoot ==
    /\ pc = "expand"
    /\ UNCHANGED parser_vars
    /\ UNCHANGED <<cli_options, done_list, to_do, task, counters, counters_1>>
    /\ IF root.variant # "CrawledDir"
       THEN Exit("Panic") /\ UNCHANGED <<root, state_store, disk, log>>
       ELSE
         \E out \in [1..Len(root.children) -> Outcomes] :
           LET e    == expand_node(root.children, out)
               node == [root EXCEPT !.children = e.nodes]
           IN  /\ root' = node
               /\ IF e.result # "Ok"
                  THEN /\ Exit(e.result)
                       /\ log' = log \o e.fetched
                       /\ UNCHANGED <<state_store, disk>>
                  ELSE
                    /\ state_store' =
                         IF cli_options.state_store_path
                         THEN crawl_completed(state_store, node)
                         ELSE [state_store EXCEPT
                                 !.crawling_state = CrawlComplete(node)]
                    /\ IF cli_options.state_store_path
                       THEN \E written \in BOOLEAN :
                              IF written
                              THEN /\ disk' = [kind |-> "store",
                                               store |-> state_store']
                                   /\ log' = Append(log \o e.fetched,
                                                    Wrote(state_store'))
                                   /\ pc' = "download" /\ res' = res
                              ELSE /\ Exit("Panic")
                                   /\ log' = log \o e.fetched
                                   /\ disk' = disk
                       ELSE /\ pc' = "download" /\ res' = res
                            /\ log' = log \o e.fetched
                            /\ disk' = disk

\* main.rs 111-127
DownloadFirst ==
    /\ pc = "download"
    /\ UNCHANGED parser_vars
    /\ UNCHANGED <<cli_options, disk, state_store, root, counters>>
    /\ IF cli_options.no_download
       THEN /\ pc' = "finish" /\ res' = res
            /\ UNCHANGED <<done_list, to_do, task, counters_1, log>>
       ELSE
         LET root_ref == get_root_ref(state_store)
         IN  IF ~root_ref.ok
             THEN /\ Exit("Err")
                  /\ UNCHANGED <<done_list, to_do, task, counters_1, log>>
             ELSE
               \E bad \in BadChoices :
                 LET r == download_recursive(root_ref.node, cli_options,
                                             counters_1, done_list, bad)
                 IN  /\ log' = Append(log, Called("first", root_ref.node,
                                                  counters_1, done_list, r))
                     /\ counters_1' = r.counters
                     /\ done_list' = r.done
                     /\ CASE r.status = "Err" ->
                               Exit("Err") /\ UNCHANGED <<to_do, task>>
                          [] r.status = "Do" ->
                               /\ to_do' = r.to_do /\ task' = 1
                               /\ pc' = IF r.to_do = <<>> THEN "finish" ELSE "tasks"
                               /\ res' = res
                          [] OTHER ->
                               /\ pc' = "finish" /\ res' = res
                               /\ UNCHANGED <<to_do, task>>

\* main.rs 128-159: one iteration of `for task in to_do`
DownloadTask ==
    /\ pc = "tasks"
    /\ UNCHANGED parser_vars
    /\ task <= Len(to_do)
    /\ UNCHANGED <<cli_options, root, to_do, counters_1>>
    /\ \E bad \in BadChoices :
         LET r == download_recursive(to_do[task], cli_options, counters,
                                     done_list, bad)
             called == Append(log, Called("task", to_do[task], counters,
                                          done_list, r))
         IN  /\ counters' = r.counters
             /\ done_list' = r.done
             /\ IF r.status # "Err"
                THEN /\ task' = task + 1
                     /\ pc' = IF task = Len(to_do) THEN "finish" ELSE "tasks"
                     /\ res' = res
                     /\ log' = called
                     /\ UNCHANGED <<state_store, disk>>
                ELSE
                  /\ task' = task
                  /\ IF cli_options.state_store_path
                     THEN /\ state_store' = error_checkpoint(state_store, r.done)
                          /\ \E written \in BOOLEAN :
                               IF written
                               THEN /\ disk' = [kind |-> "store",
                                                store |-> state_store']
                                    /\ log' = Append(called, Wrote(state_store'))
                                    /\ Exit("Err")
                               ELSE /\ Exit("Panic")
                                    /\ log' = called
                                    /\ disk' = disk
                     ELSE /\ Exit("Err")
                          /\ log' = called
                          /\ UNCHANGED <<state_store, disk>>

\* main.rs 163-171
Finish ==
    /\ pc = "finish"
    /\ UNCHANGED parser_vars
    /\ UNCHANGED <<cli_options, done_list, root, to_do, task, counters, counters_1>>
    /\ IF cli_options.state_store_path
       THEN /\ state_store' = write_state(state_store, done_list)
            /\ \E written \in BOOLEAN :
                 IF written
                 THEN /\ disk' = [kind |-> "store", store |-> state_store']
                      /\ log' = Append(log, Wrote(state_store'))
                      /\ Exit("Ok")
                 ELSE /\ Exit("Panic")
                      /\ UNCHANGED <<disk, log>>
       ELSE /\ Exit("Ok")
            /\ UNCHANGED <<state_store, disk, log>>

Next == LoadState \/ GetRootDir \/ ExpandRoot \/ DownloadFirst \/ DownloadTask \/ Finish

Spec == Init /\ [][Next]_vars

(***************************************************************************)
(* Repeated expansion of one child list: the caller of expand_node may     *)
(* call it again on the same list after it returned (crawl.rs 130-163).    *)
(***************************************************************************)
ExpandNodeChoices ==
    {File(UrlF1, "f1.txt", "d1", "1.2K", "R & D"),
     PendingDir(UrlA, "a/", "d2", "dir a"),
     PendingDir(UrlB, "b/", "d3", "dir b"),
     CrawledDir(UrlC, "/pub/a/c", "d5", "dir c",
                <<File(UrlF4, "f4.txt", "d7", "9", "fourth"),
                  PendingDir(UrlD, "d/", "d8", "dir d")>>)}

\* the lists of distinct nodes
ExpandLists ==
    {l \in UNION {[1..n -> ExpandNodeChoices] : n \in 0..MaxListLen} :
        \A i, j \in 1..Len(l) : l[i] = l[j] => i = j}

InitExpand ==
    /\ pc = "expanding"
    /\ root \in {CrawledDir(RootUrl, "/pub", "", "", l) : l \in ExpandLists}
    /\ task = 1
    /\ res = "running"
    /\ log = <<>>
    /\ cli_options = [state_store_path |-> FALSE, no_download |-> TRUE,
                      url |-> RootUrl, max_files |-> <<>>, max_bytes |-> <<>>]
    /\ disk = [kind |-> "missing", store |-> StateStoreNew]
    /\ state_store = StateStoreNew
    /\ done_list = <<>>
    /\ to_do = <<>>
    /\ counters = LimitCountsNew
    /\ counters_1 = LimitCountsNew
    /\ parse_html = NoText
    /\ parse_base = RootUrl
    /\ parse_result = NotParsed

ExpandAgain ==
    /\ pc = "expanding"
    /\ UNCHANGED parser_vars
    /\ task <= MaxExpansions
    /\ \E out \in [1..Len(root.children) -> Outcomes] :
         LET e == expand_node(root.children, out)
         IN  /\ root' = [root EXCEPT !.children = e.nodes]
             /\ res' = e.result
             /\ log' = log \o e.fetched
             /\ pc' = IF e.result = "Panic" THEN "exit" ELSE "expanding"
    /\ task' = task + 1
    /\ UNCHANGED <<cli_options, disk, state_store, done_list, to_do,
                   counters, counters_1>>

NextExpand == ExpandAgain

SpecExpand == InitExpand /\ [][NextExpand]_vars

(***************************************************************************)
(* The listing parser on its own: page texts and base URLs from bounded    *)
(* sets, parsed under every schedule (crawl.rs 58-125, 207-229).           *)
(***************************************************************************)
SlashHref(k) == <<"sub">> \o [i \in 1..k |-> ""]

\* rows whose href ends in k empty segments, as a directory and as a file
SlashRows ==
    {RowLine(SlashHref(k), "sub", "d1", size, "slashes") :
        k \in 0..MaxSlashes, size \in {EMPTY_SIZE_STRING, "1.2K"}}

\* rows whose size is close to the placeholder
SizeRows ==
    {RowLine(<<"f.bin">>, "f.bin", "d2", size, "sized") :
        size \in {" - ", "-", "0", "  -  ", "  -"}}

SmallLines ==
    {TitleLine("/pub"), TitleLine("/old"), ParentRow,
     RowLine(<<"f1.txt">>, "f1.txt", "d1", "1.2K", "R & D"),
     RowLine(<<"a", "">>, "a/", "d2", EMPTY_SIZE_STRING, "dir a"),
     RowLine(BadHref, "bad", "d3", "5", "unresolved")}

ParseTexts ==
    {[utf8 |-> TRUE, lines |-> l] :
        l \in {<<TitleLine("/pub"), r>> : r \in SlashRows \cup SizeRows}
               \cup UNION {[1..n -> SmallLines] : n \in 0..MaxLines}}

InitParse ==
    /\ pc = "parsing"
    /\ parse_html \in ParseTexts
    /\ parse_base \in {RootUrl, UrlA}
    /\ parse_result = NotParsed
    /\ task = 1
    /\ res = "running"
    /\ log = <<>>
    /\ root = NoNode
    /\ cli_options = [state_store_path |-> FALSE, no_download |-> TRUE,
                      url |-> RootUrl, max_files |-> <<>>, max_bytes |-> <<>>]
    /\ disk = [kind |-> "missing", store |-> StateStoreNew]
    /\ state_store = StateStoreNew
    /\ done_list = <<>>
    /\ to_do = <<>>
    /\ counters = LimitCountsNew
    /\ counters_1 = LimitCountsNew

Parse ==
    /\ pc = "parsing"
    /\ task <= MaxParses
    /\ \E sched \in Schedules :
         LET r == cheap_extract_from_html_par(parse_html, parse_base, sched)
         IN  parse_result' = [done |-> TRUE, ok |-> r.ok, title |-> r.title,
                        nodes |-> r.nodes]
    /\ task' = task + 1
    /\ UNCHANGED <<pc, cli_options, disk, state_store, done_list, root, to_do,
                   counters, counters_1, res, log, parse_html, parse_base>>

NextParse == Parse

SpecParse == InitParse /\ [][NextParse]_vars

(***************************************************************************)
(* Reading the history                                                     *)
(***************************************************************************)
SeqSet(s) == {s[i] : i \in 1..Len(s)}

Calls   == {i \in 1..Len(log) : log[i].ev = "call"}
Writes  == {i \in 1..Len(log) : log[i].ev = "write"}
Fetches == {i \in 1..Len(log) : log[i].ev = "fetch"}

HasLoaded == log # <<>> /\ log[1].ev = "load"

\* downloaded_urls of the checkpoint loaded at start
LoadedUrls == IF HasLoaded THEN log[1].store.downloaded_urls ELSE <<>>

\* the URLs whose download was attempted during the run
Attempted == UNION {SeqSet(log[i].attempts) : i \in Calls}

RECURSIVE HasPending(_)
HasPending(node) ==
    \/ node.variant = "PendingDir"
    \/ \E i \in 1..Len(node.children) : HasPending(node.children[i])

RECURSIVE TreeFiles(_)
TreeFiles(node) ==
    IF node.variant = "File" THEN {node.url}
    ELSE UNION {TreeFiles(node.children[i]) : i \in 1..Len(node.children)}

\* what the calls before log[n + 1] counted
RECURSIVE CountedFiles(_)
CountedFiles(n) ==
    IF n = 0 THEN 0
    ELSE CountedFiles(n - 1)
           + (IF log[n].ev = "call"
              THEN log[n].counters_out.files - log[n].counters_in.files ELSE 0)

RECURSIVE CountedBytes(_)
CountedBytes(n) ==
    IF n = 0 THEN 0
    ELSE CountedBytes(n - 1)
           + (IF log[n].ev = "call"
              THEN log[n].counters_out.bytes - log[n].counters_in.bytes ELSE 0)

(***************************************************************************)
(* Claims                                                                  *)
(***************************************************************************)

\* C1: with a checkpoint path, every traversal call that returned an error
\* (the first-level call included) is followed, before the process ends with
\* the error, by a checkpoint write holding the current crawl phase and a
\* done-list with every URL downloaded so far.
C1_ErrorIsCheckpointed ==
    (cli_options.state_store_path /\ res = "Err") =>
        \A i \in Calls :
            log[i].status = "Err" =>
                \E j \in Writes :
                    /\ j > i
                    /\ log[j].store.crawling_state = state_store.crawling_state
                    /\ SeqSet(log[i].done_out)
                          \subseteq SeqSet(log[j].store.downloaded_urls)

\* C2: with a checkpoint path, when the run ends in success the last
\* checkpoint written (the one on disk) has phase Complete and its
\* downloaded_urls is the final done-list: the URLs loaded at start plus
\* every URL downloaded during the run.
C2_SuccessPersistsComplete ==
    (cli_options.state_store_path /\ res = "Ok") =>
        /\ log # <<>> /\ log[Len(log)].ev = "write"
        /\ disk = [kind |-> "store", store |-> log[Len(log)].store]
        /\ disk.store.crawling_state.tag = "Complete"
        /\ disk.store.downloaded_urls = done_list
        /\ SeqSet(done_list) = SeqSet(LoadedUrls) \cup Attempted

C2_Witness ==
    /\ cli_options.state_store_path /\ res = "Ok"
    /\ LoadedUrls # <<>>
    /\ Attempted # {}
    /\ Cardinality(Calls) >= 2

\* C3: every URL of the loaded checkpoint's downloaded_urls is in the done
\* set handed to every traversal call and in every checkpoint the run writes;
\* the done-list handed on never shrinks, and no loaded URL is downloaded
\* again.
C3_LoadedUrlsKept ==
    /\ \A i \in Calls :
          /\ SeqSet(LoadedUrls) \subseteq SeqSet(log[i].done_in)
          /\ SeqSet(log[i].attempts) \cap SeqSet(LoadedUrls) = {}
          /\ \A j \in Calls :
                j > i => SeqSet(log[i].done_out) \subseteq SeqSet(log[j].done_in)
    /\ \A i \in Writes :
          SeqSet(LoadedUrls) \subseteq SeqSet(log[i].store.downloaded_urls)
    /\ pc # "load" => SeqSet(LoadedUrls) \subseteq SeqSet(done_list)

C3_Witness ==
    /\ LoadedUrls # <<>>
    /\ Cardinality(Writes) >= 2
    /\ Cardinality(Calls) >= 2
    /\ Attempted # {}

\* C4: a checkpoint file that is missing or does not parse gives a fresh
\* state store (phase NotStarted, empty done-list), ends the run with no
\* error, and the run goes on to fetch the root from the network.
C4_BadCheckpointStartsFresh ==
    (cli_options.state_store_path /\ pc # "load") =>
        /\ HasLoaded
        /\ log[1].kind \in {"missing", "garbage"} =>
              /\ log[1].store.crawling_state.tag = "None"
              /\ log[1].store.downloaded_urls = <<>>
              /\ \/ pc = "get_root" /\ res = "running" /\ Len(log) = 1
                 \/ /\ Len(log) >= 2
                    /\ log[2].ev = "fetch"
                    /\ log[2].url = cli_options.url

C4_Witness ==
    /\ HasLoaded
    /\ log[1].kind = "garbage"
    /\ Len(log) >= 2
    /\ state_store.crawling_state.tag = "Complete"

\* C5: a loaded Complete phase means no crawl fetch at all and a download
\* from the persisted tree; a loaded NotStarted or Partial phase means the
\* root is fetched and expanded from the network, the Partial snapshot is
\* not used, and the phase is Complete only after the root fetch and every
\* expansion fetch succeeded.
C5_PhaseDecidesCrawl ==
    HasLoaded =>
        LET loaded == log[1].store.crawling_state
            parsed == get_root_dir(cli_options.url, "ok").node.children
            frontier == {parsed[i].url : i \in {k \in 1..Len(parsed) :
                                                  parsed[k].variant = "PendingDir"}}
        IN  /\ loaded.tag = "Complete" =>
                 /\ Fetches = {}
                 /\ state_store.crawling_state = loaded
                 /\ \A i \in Calls :
                       log[i].level = "first" => log[i].node = loaded.node
            /\ loaded.tag # "Complete" =>
                 /\ pc # "get_root" =>
                       /\ Len(log) >= 2
                       /\ log[2].ev = "fetch"
                       /\ log[2].url = cli_options.url
                 /\ Calls # {} => state_store.crawling_state.tag = "Complete"
                 /\ state_store.crawling_state.tag = "Complete" =>
                       /\ \A i \in Fetches : log[i].outcome = "ok"
                       /\ {log[i].url : i \in Fetches}
                             = {cli_options.url} \cup frontier
                       /\ state_store.crawling_state.node = root
                       /\ \A i \in 1..Len(root.children) :
                             root.children[i].variant # "PendingDir"

C5_Witness ==
    /\ HasLoaded
    /\ log[1].store.crawling_state.tag = "Partial"
    /\ state_store.crawling_state.tag = "Complete"
    /\ Calls # {}

\* C6: after a network crawl the tree stored in the Complete phase has no
\* PendingDirectory node at any depth.
C6_WholeTreeExpanded ==
    (state_store.crawling_state.tag = "Complete" /\ Fetches # {}) =>
        ~HasPending(state_store.crawling_state.node)

\* C7: every sub-tree a traversal call returned in its continuation queue
\* (re-invocations included) is passed to a later traversal call, and a run
\* without errors and without limits has every File of the tree in the done
\* set when it reports success.
C7_ContinuationsRedriven ==
    (res = "Ok" /\ ~cli_options.no_download) =>
        /\ \A i \in Calls :
              \A k \in 1..Len(log[i].to_do) :
                 \E j \in Calls : j > i /\ log[j].node = log[i].to_do[k]
        /\ (cli_options.max_files = <<>> /\ cli_options.max_bytes = <<>>) =>
              TreeFiles(state_store.crawling_state.node) \subseteq SeqSet(done_list)

\* C8: the counters handed to each continuation call hold every file and
\* byte counted by all earlier calls of the run, the first-level call
\* included.
C8_OneRunningTotal ==
    \A j \in Calls :
        log[j].level = "task" =>
            /\ log[j].counters_in.files = CountedFiles(j - 1)
            /\ log[j].counters_in.bytes = CountedBytes(j - 1)

\* C9: an expansion leaves every ExpandedDirectory and every File of the
\* list as it was and issues no fetch for it; a PendingDirectory stays as it
\* was or becomes the ExpandedDirectory of the same URL.
C9_VariantOnlyAdvances ==
    [][pc = "expanding" =>
         /\ Len(root'.children) = Len(root.children)
         /\ \A i \in 1..Len(root.children) :
               LET old == root.children[i]
                   new == root'.children[i]
               IN  /\ old.variant \in {"CrawledDir", "File"} =>
                         /\ new = old
                         /\ \A k \in (Len(log) + 1)..Len(log') :
                               log'[k].url # old.url
                   /\ old.variant = "PendingDir" =>
                         \/ new = old
                         \/ new.variant = "CrawledDir" /\ new.url = old.url
      ]_vars

C9_Witness ==
    /\ pc = "expanding"
    /\ task = MaxExpansions + 1
    /\ res = "Ok"
    /\ Len(log) >= 2
    /\ \E i, j \in 1..Len(root.children) :
          /\ root.children[i].variant = "CrawledDir"
          /\ root.children[i].url = UrlA
          /\ root.children[j].variant = "File"

\* C10: a transport failure (send or body read) while expanding a
\* PendingDirectory makes the expansion return an error after exactly one
\* fetch of that node, which is still the same PendingDirectory.
C10_TransportFailureIsError ==
    [][pc = "expanding" =>
         \A k \in (Len(log) + 1)..Len(log') :
            log'[k].outcome \in {"send_fail", "body_fail"} =>
               /\ res' = "Err"
               /\ Cardinality({m \in (Len(log) + 1)..Len(log') :
                                  log'[m].url = log'[k].url}) = 1
               /\ \E i \in 1..Len(root.children) :
                     /\ root.children[i].url = log'[k].url
                     /\ root.children[i].variant = "PendingDir"
                     /\ root'.children[i] = root.children[i]
      ]_vars

\* C11: every failure of root acquisition, transport or parser, comes back
\* as an error result of get_root_dir, and no checkpoint was written before.
C11_RootFailureIsError ==
    \A i \in Fetches :
        (log[i].url = cli_options.url /\ log[i].outcome # "ok") =>
            /\ res = "Err"
            /\ Writes = {}

\* C12: when a run sets the phase to Complete after a network crawl, the
\* stored root is an ExpandedDirectory with the configured root URL, the
\* title of the root page as its name, and empty description and
\* last-modified.
C12_CompleteRootShape ==
    (state_store.crawling_state.tag = "Complete" /\ Fetches # {}) =>
        LET node == state_store.crawling_state.node
        IN  /\ node.variant = "CrawledDir"
            /\ node.url = cli_options.url
            /\ node.name = DecodeText(SitePage(cli_options.url)[1].text)
            /\ node.description = ""
            /\ node.last_modified = ""

C12_Witness ==
    /\ state_store.crawling_state.tag = "Complete"
    /\ Fetches # {}
    /\ res = "Ok"
    /\ state_store.crawling_state.node.name = "/pub"

\* the rows of the parsed text that match the record pattern and whose href
\* resolves, in line order
MatchingRows ==
    LET Resolves(l) == l.kind = "row" /\ l.href # BadHref
    IN  SelectSeq(parse_html.lines, Resolves)

\* the href of a row joined to the base URL, nothing removed
Joined(row) == SubSeq(parse_base, 1, Len(parse_base) - 1) \o row.href

RECURSIVE TrailingEmpties(_)
TrailingEmpties(url) ==
    IF url = <<>> \/ url[Len(url)] # "" THEN 0
    ELSE 1 + TrailingEmpties(SubSeq(url, 1, Len(url) - 1))

Parsed == parse_result.done /\ parse_result.ok

\* C13: every matching row whose href resolves gives one entry: a
\* PendingDirectory exactly when its size field is "  - ", otherwise a File
\* carrying that size; name, last-modified and description are the row's.
C13_ClassifiedBySize ==
    Parsed =>
        /\ Len(parse_result.nodes) = Len(MatchingRows)
        /\ \A j \in 1..Len(MatchingRows) :
              LET row  == MatchingRows[j]
                  node == parse_result.nodes[j]
              IN  /\ node.variant = "PendingDir" <=> row.size = "  - "
                  /\ row.size # "  - " =>
                        node.variant = "File" /\ node.size = row.size
                  /\ node.name = row.name
                  /\ node.last_modified = row.date
                  /\ node.description = row.desc

C13_Witness ==
    /\ Parsed
    /\ \E j \in 1..Len(parse_result.nodes) :
          /\ parse_result.nodes[j].variant = "File"
          /\ parse_result.nodes[j].size = " - "

\* C14: a file URL with k trailing empty segments loses min(k, 17) of them
\* (so it ends in its last non-empty segment for k <= 17 and keeps k - 17
\* empty segments beyond that); a directory URL is kept as joined.
C14_SlashesStripped ==
    Parsed =>
        \A j \in 1..Len(MatchingRows) :
           LET url  == Joined(MatchingRows[j])
               k    == TrailingEmpties(url)
               node == parse_result.nodes[j]
           IN  /\ node.variant = "File" =>
                     /\ node.url = SubSeq(url, 1, Len(url) - (IF k < 17 THEN k ELSE 17))
                     /\ k <= 17 => node.url[Len(node.url)] # ""
                     /\ k > 17 => TrailingEmpties(node.url) = k - 17
               /\ node.variant = "PendingDir" => node.url = url

C14_Witness ==
    /\ Parsed
    /\ \E j \in 1..Len(parse_result.nodes) :
          /\ parse_result.nodes[j].variant = "File"
          /\ TrailingEmpties(Joined(MatchingRows[j])) = 19
          /\ TrailingEmpties(parse_result.nodes[j].url) = 2

C15_CrawlFailureCheckpointed ==
    (cli_options.state_store_path /\ res = "Err") =>
        \A i \in Fetches :
            log[i].outcome \in {"send_fail", "body_fail"} =>
                \E j \in Writes : j > i

\* C16: with a checkpoint path, the store is written once the phase has
\* become Complete after a crawl, and after each traversal call that added
\* URLs to the done-list, before the next traversal call starts.
C16_WrittenAfterEveryChange ==
    cli_options.state_store_path =>
        /\ (Fetches # {} /\ state_store.crawling_state.tag = "Complete"
              /\ pc # "expand") => Writes # {}
        /\ \A i, j \in Calls :
              (i < j /\ log[i].done_out # log[i].done_in) =>
                  \E w \in Writes : i < w /\ w < j

\* C17: in a run with a checkpoint path that crawled from the network, the
\* checkpoint with the Complete phase, the crawled tree and the loaded
\* done-list is written before the first traversal call, and the file on
\* disk holds the Complete tree at every later point of the run.
C17_CompleteTreeOnDiskFirst ==
    (/\ cli_options.state_store_path
     /\ Fetches # {}
     /\ \/ pc \in {"download", "tasks", "finish"}
        \/ pc = "exit" /\ Calls # {}) =>
        /\ root.variant = "CrawledDir"
        /\ disk.kind = "store"
        /\ disk.store.crawling_state = CrawlComplete(root)
        /\ \E w \in Writes :
              /\ \A c \in Calls : w < c
              /\ log[w].store.crawling_state = CrawlComplete(root)
              /\ log[w].store.downloaded_urls = LoadedUrls

C17_Witness ==
    /\ cli_options.state_store_path
    /\ Fetches # {}
    /\ res = "Err"
    /\ LoadedUrls # <<>>
    /\ \E c \in Calls : log[c].status = "Err" /\ log[c].attempts # <<>>

\* the fetches the step just taken has issued
NewFetches == SubSeq(log', Len(log) + 1, Len(log'))

\* the PendingDirectory children of the list, in list order
PendingChildren ==
    LET IsPending(n) == n.variant = "PendingDir"
    IN  SelectSeq(root.children, IsPending)

\* the listing of the site's directories, as entries
ExpectedChildren(url) ==
    CASE url = UrlA ->
           <<File(UrlF2, "f2.txt", "d4", "7", "second"),
             PendingDir(UrlC, "c/", "d5", "dir c")>>
      [] url = UrlB ->
           <<File(UrlF3, "f3.txt", "d6", "3M", "third")>>
      [] OTHER -> <<>>

ExpectedTitle(url) ==
    CASE url = UrlA -> "/pub/a"
      [] url = UrlB -> "/pub/b"
      [] OTHER -> "/"

\* C18: one expand_node call fetches the PendingDirectory children in list
\* order, each once; when it succeeds no immediate child is pending and no
\* grandchild was fetched or expanded; when a fetch or parse fails it is the
\* last fetch of the call, the children before it are expanded and the
\* failing child and the pending ones after it are untouched.
C18_OneLevelInOrder ==
    [][pc = "expanding" =>
         /\ Len(NewFetches) <= Len(PendingChildren)
         /\ \A k \in 1..Len(NewFetches) :
               /\ NewFetches[k].url = PendingChildren[k].url
               /\ k < Len(NewFetches) => NewFetches[k].outcome = "ok"
         /\ res' = "Ok" =>
               /\ Len(NewFetches) = Len(PendingChildren)
               /\ \A i \in 1..Len(root'.children) :
                     /\ root'.children[i].variant # "PendingDir"
                     /\ root.children[i].variant = "PendingDir" =>
                           \A g \in 1..Len(root'.children[i].children) :
                              root'.children[i].children[g].variant # "CrawledDir"
         /\ res' # "Ok" =>
               /\ NewFetches # <<>>
               /\ NewFetches[Len(NewFetches)].outcome # "ok"
               /\ \A i \in 1..Len(root.children) :
                     root.children[i].variant = "PendingDir" =>
                        IF \E k \in 1..(Len(NewFetches) - 1) :
                              NewFetches[k].url = root.children[i].url
                        THEN root'.children[i].variant = "CrawledDir"
                        ELSE root'.children[i] = root.children[i]
      ]_vars

C18_Witness ==
    /\ pc = "expanding"
    /\ task = 2
    /\ res = "Err"
    /\ Len(log) = 2
    /\ Len(root.children) = 3
    /\ root.children[1].variant = "CrawledDir" /\ root.children[1].url = UrlB
    /\ root.children[2].variant = "File"
    /\ root.children[3].variant = "PendingDir" /\ root.children[3].url = UrlA

\* C19: a PendingDirectory that an expansion turned into an
\* ExpandedDirectory has the URL, description and last-modified of the
\* pending node, the title of the fetched page as its name, and as children
\* the entries of that page with their hrefs resolved against its own URL.
C19_ExpandedKeepsMetadata ==
    [][pc = "expanding" =>
         \A i \in 1..Len(root.children) :
            LET old == root.children[i]
                new == root'.children[i]
            IN  (old.variant = "PendingDir" /\ new.variant = "CrawledDir") =>
                   /\ new.url = old.url
                   /\ new.description = old.description
                   /\ new.last_modified = old.last_modified
                   /\ new.name = ExpectedTitle(old.url)
                   /\ new.children = ExpectedChildren(old.url)
      ]_vars

C19_Witness ==
    /\ pc = "expanding"
    /\ task = 2
    /\ res = "Ok"
    /\ \E i \in 1..Len(root.children) :
          /\ root.children[i].variant = "CrawledDir"
          /\ root.children[i].url = UrlA
          /\ root.children[i].name = "/pub/a"
          /\ root.children[i].description = "dir a"
          /\ Len(root.children[i].children) = 2

====
